---- MODULE Spec2Model ----
(***************************************************************************)
(* A model of the PR chunker scripts of vishnukoyyada/AseProject:          *)
(*   scripts/pr_review/chunker.py     (analysis, reviewer distribution,    *)
(*                                     report generation)                  *)
(*   scripts/pr_review/pr_chunker.py  (diff-context extraction, report     *)
(*                                     with a chunk-size header)           *)
(*   scripts/pr_chunker.py            (definition diffs cut out of a file  *)
(*                                     diff by line prefix)                *)
(*   .github/scripts/pr_chunker.py    (per-file chunks of the top-level    *)
(*                                     functions)                          *)
(* Python dicts are modelled as insertion-ordered sequences of             *)
(* [key, val] records with distinct keys; lists are sequences; a raised    *)
(* exception is the value of err.                                          *)
(***************************************************************************)
EXTENDS Integers, Sequences, FiniteSets, TLC

VARIABLES
    entry,            \* the function the caller entered
    pc,               \* position of the running call
    err,              \* "none", or the exception that ended the call
    changed_files,    \* the changed files of the PR, in `git diff --name-only` order
    idx,              \* 1-based position of the per-file loop of analyze_changes
    chunks,           \* dict: file path -> list of chunks
    reviewers,        \* the reviewer list
    reviewer_chunks,  \* dict: reviewer -> list of {'file', 'chunk'} items
    report,           \* the lines written to the output file so far
    args,             \* the command-line options --min-lines and --max-lines
    result            \* the value extract_context / extract_definition_diff returned last

vars == <<entry, pc, err, changed_files, idx, chunks, reviewers, reviewer_chunks, report, args, result>>

(***************************************************************************)
(* Bounds of the model.                                                    *)
(***************************************************************************)
MaxFiles == 2
MaxChunksPerFile == 2
MaxReviewers == 3

\* no extraction function has returned (also the model of None)
NoResult == [found |-> FALSE, lines |-> <<>>]

\* chunker.py takes no line bounds
NoArgs == [min_lines |-> 0, max_lines |-> 0]

ReviewerIds == {"alice", "bob", "carol"}
\* A path is <<stem, suffix>>, so that endswith('.py') reads the suffix.
PyPaths == <<<<"a", ".py">>, <<"b", ".py">>, <<"c", ".py">>, <<"d", ".py">>>>
TxtPath == <<"notes", ".txt">>
DefNames == <<"f", "g", "h", "k", "m">>

(***************************************************************************)
(* Python dict, as an insertion-ordered sequence of [key, val].            *)
(***************************************************************************)
DictHas(d, k) == \E i \in 1..Len(d) : d[i].key = k

DictGet(d, k) == d[CHOOSE i \in 1..Len(d) : d[i].key = k].val

\* d[k] = v: an existing key keeps its position, a new key goes last.
DictSet(d, k, v) ==
    IF DictHas(d, k)
    THEN [i \in 1..Len(d) |-> IF d[i].key = k THEN [key |-> k, val |-> v] ELSE d[i]]
    ELSE Append(d, [key |-> k, val |-> v])

DictKeys(d) == {d[i].key : i \in 1..Len(d)}

(***************************************************************************)
(* divide_chunks_among_reviewers (chunker.py).                             *)
(***************************************************************************)
\* {reviewer: [] for reviewer in reviewers}
RECURSIVE EmptyReviewerChunks(_)
EmptyReviewerChunks(rs) ==
    IF rs = <<>> THEN <<>>
    ELSE DictSet(EmptyReviewerChunks(SubSeq(rs, 1, Len(rs) - 1)), rs[Len(rs)], <<>>)

\* [(file, chunk) for chunk in chunks_in_file]
FileItems(ent) ==
    [j \in 1..Len(ent.val) |-> [file |-> ent.key, chunk |-> ent.val[j]]]

\* [(file, chunk) for file, chunks_in_file in chunks.items() for chunk in chunks_in_file]
RECURSIVE ChunkList(_)
ChunkList(d) ==
    IF d = <<>> THEN <<>>
    ELSE FileItems(d[1]) \o ChunkList(Tail(d))

\* reviewers[idx % len(reviewers)], idx counted from 0
ReviewerAtNext(rs, i) == rs[((i + 1) % Len(rs)) + 1]
ReviewerAt(rs, i) == rs[(i % Len(rs)) + 1]

\* reviewer_chunks[reviewer].append({'file': file, 'chunk': chunk})
AppendChunkOverwrite(rc, reviewer, item) == DictSet(rc, reviewer, <<item>>)
AppendChunk(rc, reviewer, item) ==
    DictSet(rc, reviewer, Append(DictGet(rc, reviewer), item))

\* for idx, (file, chunk) in enumerate(chunk_list): ...
\* idx % len(reviewers) raises ZeroDivisionError when the reviewer list is empty.
RECURSIVE DivideLoop(_, _, _, _)
DivideLoop(rc, chunk_list, rs, i) ==
    IF i >= Len(chunk_list) THEN [err |-> "none", value |-> rc]
    ELSE IF Len(rs) = 0 THEN [err |-> "ZeroDivisionError", value |-> rc]
    ELSE DivideLoop(AppendChunk(rc, ReviewerAt(rs, i), chunk_list[i + 1]),
                    chunk_list, rs, i + 1)

divide_chunks_among_reviewers(cs, rs) ==
    DivideLoop(EmptyReviewerChunks(rs), ChunkList(cs), rs, 0)

(***************************************************************************)
(* Inputs of the distributor: every chunk mapping and reviewer list        *)
(* within the bounds.                                                      *)
(***************************************************************************)
ChunkOf(j) ==
    [type  |-> IF j % 2 = 1 THEN "function" ELSE "class",
     name  |-> DefNames[j],
     lines |-> <<3 * j - 2, 3 * j - 1>>]

ChunksOfLen(n) == [j \in 1..n |-> ChunkOf(j)]

ChunkMaps ==
    UNION {
        { [i \in 1..k |-> [key |-> PyPaths[i], val |-> ChunksOfLen(cnt[i])]] :
            cnt \in [1..k -> 0..MaxChunksPerFile] } :
        k \in 0..MaxFiles }

ReviewerLists == UNION { [1..n -> ReviewerIds] : n \in 0..MaxReviewers }

(***************************************************************************)
(* Specification SpecDist: one call of divide_chunks_among_reviewers.      *)
(***************************************************************************)
InitDist ==
    /\ entry = "divide_chunks_among_reviewers"
    /\ pc = "divide_call"
    /\ err = "none"
    /\ changed_files = <<>>
    /\ idx = 1
    /\ chunks \in ChunkMaps
    /\ reviewers \in ReviewerLists
    /\ reviewer_chunks = <<>>
    /\ report = <<>>
    /\ args = NoArgs
    /\ result = NoResult

DivideReturn ==
    /\ pc = "divide_call"
    /\ divide_chunks_among_reviewers(chunks, reviewers).err = "none"
    /\ reviewer_chunks' = divide_chunks_among_reviewers(chunks, reviewers).value
    /\ pc' = "divide_done"
    /\ UNCHANGED <<entry, err, changed_files, idx, chunks, reviewers, report, args, result>>

DivideRaise ==
    /\ pc = "divide_call"
    /\ divide_chunks_among_reviewers(chunks, reviewers).err # "none"
    /\ err' = divide_chunks_among_reviewers(chunks, reviewers).err
    /\ pc' = "divide_raised"
    /\ UNCHANGED <<entry, changed_files, idx, chunks, reviewers, reviewer_chunks, report, args, result>>

NextDist == DivideReturn \/ DivideRaise

SpecDist == InitDist /\ [][NextDist]_vars

(***************************************************************************)
(* The repository as analyze_changes sees it (chunker.py).  A changed     *)
(* file is [path, content, diff]:                                          *)
(*   content.kind  "missing"      git show fails (get_file_content None)   *)
(*                 "empty"        git show returns ''                      *)
(*                 "unparseable"  cst.parse_module raises                  *)
(*                 "module"       parsed; content.body lists the outermost *)
(*                                definitions, each with its own body      *)
(*   diff.ok       whether `git diff --unified=0 <file>` returns           *)
(*   diff.lines    the lines of that diff                                  *)
(***************************************************************************)
Node(type, name, start, end, body) ==
    [type |-> type, name |-> name, start |-> start, end |-> end, body |-> body]

\* `@@ -oldStart,oldCount +newStart[,newCount] @@ toks`: a line of a diff is a
\* record; toks are the tokens of its text (after the @@ ... @@ of a header)
HunkHeader(oldStart, oldCount, newStart, newCount, countGiven, toks) ==
    [hunk |-> TRUE, oldStart |-> oldStart, oldCount |-> oldCount,
     newStart |-> newStart, newCount |-> newCount,
     countGiven |-> countGiven, toks |-> toks]

TextLine(toks) ==
    [hunk |-> FALSE, oldStart |-> 0, oldCount |-> 0,
     newStart |-> 0, newCount |-> 0, countGiven |-> FALSE, toks |-> toks]

\* class Svc (lines 1-6) with method m (lines 3-4), then function f (lines 8-9)
TreeClassAndFunction ==
    <<Node("class", "Svc", 1, 6, <<Node("function", "m", 3, 4, <<>>)>>),
      Node("function", "f", 8, 9, <<>>)>>

\* function g (lines 1-2)
TreeOneFunction == <<Node("function", "g", 1, 2, <<>>)>>

Trees == {TreeClassAndFunction, TreeOneFunction}

DiffInMethod == <<HunkHeader(3, 0, 3, 1, TRUE, <<>>), TextLine(<<"+", "x = 1">>)>>
DiffElsewhere == <<HunkHeader(11, 0, 12, 0, FALSE, <<>>), TextLine(<<"+", "y = 2">>)>>
DiffNoHunk == <<TextLine(<<"Binary files differ">>)>>

NoContent(kind) == [kind |-> kind, body |-> <<>>]
DiffReturns(lines) == [ok |-> TRUE, lines |-> lines]
DiffRaises == [ok |-> FALSE, lines |-> <<>>]

FileChoices(path) ==
    IF path = TxtPath
    THEN {[path |-> path, content |-> NoContent("missing"), diff |-> DiffRaises]}
    ELSE {[path |-> path, content |-> NoContent(k), diff |-> DiffRaises] :
             k \in {"missing", "empty", "unparseable"}}
         \cup
         {[path |-> path, content |-> [kind |-> "module", body |-> t], diff |-> d] :
             t \in Trees,
             d \in {DiffRaises, DiffReturns(DiffInMethod),
                    DiffReturns(DiffElsewhere), DiffReturns(DiffNoHunk)}}

ChangedPaths == {PyPaths[i] : i \in 1..MaxFiles} \cup {TxtPath}

\* git lists a changed path once
FileLists ==
    {fs \in UNION {[1..n -> UNION {FileChoices(p) : p \in ChangedPaths}] :
                      n \in 0..MaxFiles} :
        \A i, j \in 1..Len(fs) : i # j => fs[i].path # fs[j].path}

(***************************************************************************)
(* ChunkCollector (chunker.py): the visitor adds a chunk for each          *)
(* FunctionDef and ClassDef it visits; the value its visit_ method returns *)
(* tells the traversal whether to visit the node's children.               *)
(***************************************************************************)
visit_FunctionDef(node) == FALSE
visit_ClassDef(node) == FALSE

\* (type_, node.name.value, (start, end))
_add_chunk(node) ==
    [type |-> node.type, name |-> node.name, lines |-> <<node.start, node.end>>]

RECURSIVE VisitNodes(_)
VisitNodes(nodes) ==
    IF nodes = <<>> THEN <<>>
    ELSE LET node == nodes[1]
             descend == IF node.type = "function" THEN visit_FunctionDef(node)
                        ELSE visit_ClassDef(node)
         IN  <<_add_chunk(node)>>
             \o (IF descend THEN VisitNodes(node.body) ELSE <<>>)
             \o VisitNodes(Tail(nodes))

(***************************************************************************)
(* analyze_changes (chunker.py).                                           *)
(***************************************************************************)
EndsWithPy(path) == path[Len(path)] = ".py"

\* what the loop body does with one file
FileOutcome(file) ==
    IF ~EndsWithPy(file.path) THEN "skip_non_python"
    ELSE IF file.content.kind \in {"missing", "empty"} THEN "skip_no_content"
    ELSE IF file.content.kind = "unparseable" THEN "ParserSyntaxError"
    ELSE IF ~file.diff.ok THEN "GitCommandError"
    ELSE "ok"

\* chunks[file_path] = [(typ, name, lines) for typ, name, lines in collector.chunks]
AnalyzeFile(cs, file) ==
    IF FileOutcome(file) = "ok"
    THEN DictSet(cs, file.path, VisitNodes(file.content.body))
    ELSE cs

\* the except clause of the loop body ends with `continue`
OnErrorAbort(i, n) == n + 1
OnError(i, n) == i + 1

NextIndex(files, i) ==
    IF FileOutcome(files[i]) \in {"ParserSyntaxError", "GitCommandError"}
    THEN OnError(i, Len(files))
    ELSE i + 1

RECURSIVE AnalyzeFrom(_, _, _)
AnalyzeFrom(files, i, cs) ==
    IF i > Len(files) THEN cs
    ELSE AnalyzeFrom(files, NextIndex(files, i), AnalyzeFile(cs, files[i]))

(***************************************************************************)
(* Specification SpecAnalyze: one call of analyze_changes, file by file.   *)
(***************************************************************************)
InitAnalyze ==
    /\ entry = "analyze_changes"
    /\ pc = "analyze_call"
    /\ err = "none"
    /\ changed_files \in FileLists
    /\ idx = 1
    /\ chunks = <<>>
    /\ reviewers = <<>>
    /\ reviewer_chunks = <<>>
    /\ report = <<>>
    /\ args = NoArgs
    /\ result = NoResult

\* changed_files = repo.git.diff(..., name_only=True).splitlines(); chunks = {}
AnalyzeListFiles ==
    /\ pc = "analyze_call"
    /\ pc' = "analyze_loop"
    /\ idx' = 1
    /\ chunks' = <<>>
    /\ UNCHANGED <<entry, err, changed_files, reviewers, reviewer_chunks, report, args, result>>

\* the listing itself fails: the outer except prints and re-raises
AnalyzeListRaise ==
    /\ pc = "analyze_call"
    /\ pc' = "analyze_raised"
    /\ err' = "GitCommandError"
    /\ UNCHANGED <<entry, changed_files, idx, chunks, reviewers, reviewer_chunks, report, args, result>>

AnalyzeFileStep ==
    /\ pc = "analyze_loop"
    /\ idx <= Len(changed_files)
    /\ chunks' = AnalyzeFile(chunks, changed_files[idx])
    /\ idx' = NextIndex(changed_files, idx)
    /\ UNCHANGED <<entry, pc, err, changed_files, reviewers, reviewer_chunks, report, args, result>>

AnalyzeReturn ==
    /\ pc = "analyze_loop"
    /\ idx > Len(changed_files)
    /\ pc' = "analyze_done"
    /\ UNCHANGED <<entry, err, changed_files, idx, chunks, reviewers, reviewer_chunks, report, args, result>>

NextAnalyze ==
    AnalyzeListFiles \/ AnalyzeListRaise \/ AnalyzeFileStep \/ AnalyzeReturn

SpecAnalyze == InitAnalyze /\ [][NextAnalyze]_vars

(***************************************************************************)
(* generate_output and main (chunker.py).  The report is the sequence of   *)
(* f.write calls made on the output file, which open(..., 'w') truncates.  *)
(***************************************************************************)
ReportHeader == <<[line |-> "title"], [line |-> "repository"]>>

\* the four writes made for one chunk of a reviewer
ChunkLines(item) ==
    <<[line |-> "chunk_heading", type |-> item.chunk.type, name |-> item.chunk.name],
      [line |-> "chunk_lines", lines |-> item.chunk.lines],
      [line |-> "view_code", file |-> item.file, lines |-> item.chunk.lines],
      [line |-> "ai_summary"]>>

RECURSIVE ItemsLines(_)
ItemsLines(items) ==
    IF items = <<>> THEN <<>>
    ELSE ChunkLines(items[1]) \o ItemsLines(Tail(items))

\* for reviewer, reviewer_chunk in reviewer_chunks.items(): ...
RECURSIVE ReviewerSections(_)
ReviewerSections(rc) ==
    IF rc = <<>> THEN <<>>
    ELSE <<[line |-> "reviewer", reviewer |-> rc[1].key]>>
         \o ItemsLines(rc[1].val)
         \o <<[line |-> "separator"]>>
         \o ReviewerSections(Tail(rc))

\* the runs of main draw their changed files and reviewers from these
RunFileLists ==
    {fs \in FileLists :
        \A i \in 1..Len(fs) : fs[i].diff \in {DiffRaises, DiffReturns(DiffInMethod)}}

RunReviewerLists ==
    {rs \in ReviewerLists :
        Len(rs) <= 2 /\ \A i \in 1..Len(rs) : rs[i] \in {"alice", "bob"}}

(***************************************************************************)
(* Specification SpecRun: a run of chunker.py, entered through main (the   *)
(* command line) or through generate_output called by another caller with  *)
(* the chunks of analyze_changes and a reviewer list of its own.           *)
(***************************************************************************)
InitRun ==
    /\ entry \in {"main", "generate_output"}
    /\ pc = IF entry = "main" THEN "main_args" ELSE "analyze"
    /\ err = "none"
    /\ changed_files \in RunFileLists
    /\ idx = 1
    /\ chunks = <<>>
    /\ reviewers \in RunReviewerLists
    /\ reviewer_chunks = <<>>
    /\ report = <<>>
    /\ args = NoArgs
    /\ result = NoResult

\* parser.add_argument("--reviewers", nargs='+', required=True): argparse
\* exits with status 2 when no reviewer is given
MainArgsRejected ==
    /\ pc = "main_args"
    /\ Len(reviewers) = 0
    /\ pc' = "exited"
    /\ err' = "SystemExit(2)"
    /\ UNCHANGED <<entry, changed_files, idx, chunks, reviewers, reviewer_chunks, report, args, result>>

MainArgsParsed ==
    /\ pc = "main_args"
    /\ Len(reviewers) >= 1
    /\ pc' = "analyze"
    /\ UNCHANGED <<entry, err, changed_files, idx, chunks, reviewers, reviewer_chunks, report, args, result>>

\* chunks = analyze_changes(repo, args.base, args.head)
RunAnalyze ==
    /\ pc = "analyze"
    /\ chunks' = AnalyzeFrom(changed_files, 1, <<>>)
    /\ idx' = Len(changed_files) + 1
    /\ pc' = "gen_open"
    /\ UNCHANGED <<entry, err, changed_files, reviewers, reviewer_chunks, report, args, result>>

\* analyze_changes re-raises a failure to list the changed files; main
\* catches it and exits with status 1
RunAnalyzeRaise ==
    /\ pc = "analyze"
    /\ err' = "GitCommandError"
    /\ pc' = IF entry = "main" THEN "exited" ELSE "raised"
    /\ UNCHANGED <<entry, changed_files, idx, chunks, reviewers, reviewer_chunks, report, args, result>>

\* with open(output_file, 'w') as f: the title and the repository line
GenWriteHeader ==
    /\ pc = "gen_open"
    /\ report' = ReportHeader
    /\ pc' = "gen_body"
    /\ UNCHANGED <<entry, err, changed_files, idx, chunks, reviewers, reviewer_chunks, args, result>>

\* if not chunks: f.write("No reviewable chunks found.\n"); return
GenNoChunks ==
    /\ pc = "gen_body"
    /\ chunks = <<>>
    /\ report' = Append(report, [line |-> "no_chunks"])
    /\ pc' = "returned"
    /\ UNCHANGED <<entry, err, changed_files, idx, chunks, reviewers, reviewer_chunks, args, result>>

\* reviewer_chunks = divide_chunks_among_reviewers(chunks, reviewers)
GenDivide ==
    /\ pc = "gen_body"
    /\ chunks # <<>>
    /\ divide_chunks_among_reviewers(chunks, reviewers).err = "none"
    /\ reviewer_chunks' = divide_chunks_among_reviewers(chunks, reviewers).value
    /\ pc' = "gen_write"
    /\ UNCHANGED <<entry, err, changed_files, idx, chunks, reviewers, report, args, result>>

\* the except clause prints and re-raises; the header stays in the file
GenDivideRaise ==
    /\ pc = "gen_body"
    /\ chunks # <<>>
    /\ divide_chunks_among_reviewers(chunks, reviewers).err # "none"
    /\ err' = divide_chunks_among_reviewers(chunks, reviewers).err
    /\ pc' = IF entry = "main" THEN "exited" ELSE "raised"
    /\ UNCHANGED <<entry, changed_files, idx, chunks, reviewers, reviewer_chunks, report, args, result>>

GenWriteSections ==
    /\ pc = "gen_write"
    /\ report' = report \o ReviewerSections(reviewer_chunks)
    /\ pc' = "returned"
    /\ UNCHANGED <<entry, err, changed_files, idx, chunks, reviewers, reviewer_chunks, args, result>>

NextRun ==
    \/ MainArgsRejected \/ MainArgsParsed
    \/ RunAnalyze \/ RunAnalyzeRaise
    \/ GenWriteHeader \/ GenNoChunks \/ GenDivide \/ GenDivideRaise
    \/ GenWriteSections

SpecRun == InitRun /\ [][NextRun]_vars

(***************************************************************************)
(* scripts/pr_review/pr_chunker.py: process_chunks and extract_context.    *)
(* The excerpt that '\n'.join(chunk_lines) returns is modelled as the      *)
(* sequence of its lines; None is [found |-> FALSE].                       *)
(***************************************************************************)
ContextLimit == 50

\* pat in line, on the tokens of the line
Contains(toks, pat) ==
    \E i \in 1..(Len(toks) - Len(pat) + 1) : SubSeq(toks, i, i + Len(pat) - 1) = pat

\* (type_ == 'function' and f"def {name}(" in line) or
\* (type_ == 'class' and f"class {name}(" in line)
OpensDefinition(line, type_, name) ==
    \/ type_ = "function" /\ Contains(line.toks, <<"def ", name, "(">>)
    \/ type_ = "class" /\ Contains(line.toks, <<"class ", name, "(">>)

\* f"@@ -{start},0 +{end},0 @@"
ContextHeader(start, end) == HunkHeader(start, 0, end, 0, TRUE, <<>>)

\* if len(chunk_lines) > 50: break
OverLimitLate(chunk_lines) == Len(chunk_lines) > ContextLimit + 1
OverLimit(chunk_lines) == Len(chunk_lines) > ContextLimit

\* the for loop of extract_context from line i on: chunk_lines and found
RECURSIVE ExtractLoop(_, _, _, _, _, _, _)
ExtractLoop(lines, i, type_, name, start, end, st) ==
    IF i > Len(lines) THEN st
    ELSE LET opened == ~st.found /\ OpensDefinition(lines[i], type_, name)
             found == st.found \/ opened
             withHeader == IF opened
                           THEN Append(st.chunk_lines, ContextHeader(start, end))
                           ELSE st.chunk_lines
             collected == IF found THEN Append(withHeader, lines[i]) ELSE withHeader
             now == [found |-> found, chunk_lines |-> collected]
         IN  IF found /\ OverLimit(collected)
             THEN now
             ELSE ExtractLoop(lines, i + 1, type_, name, start, end, now)

\* return '\n'.join(chunk_lines) if found else None
extract_context(diff, type_, name, start, end) ==
    LET st == ExtractLoop(diff, 1, type_, name, start, end,
                          [found |-> FALSE, chunk_lines |-> <<>>])
    IN  IF st.found THEN [found |-> TRUE, lines |-> st.chunk_lines]
        ELSE [found |-> FALSE, lines |-> <<>>]

\* if chunk_diff: result.append({'type', 'name', 'lines', 'diff'})
RECURSIVE process_chunks(_, _)
process_chunks(cs, diff) ==
    IF cs = <<>> THEN <<>>
    ELSE LET c == cs[1]
             chunk_diff == extract_context(diff, c.type, c.name, c.lines[1], c.lines[2])
         IN  (IF chunk_diff.found /\ chunk_diff.lines # <<>>
              THEN <<[type |-> c.type, name |-> c.name, lines |-> c.lines,
                      diff |-> chunk_diff.lines]>>
              ELSE <<>>)
             \o process_chunks(Tail(cs), diff)

(***************************************************************************)
(* analyze_changes (pr_chunker.py): the loop body calls get_file_content,  *)
(* a name the module neither defines nor imports, so every .py file raises *)
(* NameError inside the try and is skipped by the except clause.           *)
(***************************************************************************)
PrFileOutcome(file) ==
    IF ~EndsWithPy(file.path) THEN "skip_non_python" ELSE "NameError"

PrAnalyzeFile(cs, file) ==
    IF PrFileOutcome(file) = "ok"
    THEN DictSet(cs, file.path,
                 process_chunks(VisitNodes(file.content.body), file.diff.lines))
    ELSE cs

(***************************************************************************)
(* generate_output (pr_chunker.py): min_lines and max_lines are written    *)
(* into the header; every chunk of every file is written.                  *)
(***************************************************************************)
PrReportHeader(a) ==
    <<[line |-> "title"], [line |-> "repository"],
      [line |-> "chunk_size", min_lines |-> a.min_lines, max_lines |-> a.max_lines]>>

PrChunkLines(c) ==
    <<[line |-> "chunk_heading", type |-> c.type, name |-> c.name],
      [line |-> "chunk_lines", lines |-> c.lines],
      [line |-> "diff", diff |-> c.diff],
      [line |-> "add_review_comment"]>>

RECURSIVE PrFileChunksLines(_)
PrFileChunksLines(cs) ==
    IF cs = <<>> THEN <<>>
    ELSE PrChunkLines(cs[1]) \o PrFileChunksLines(Tail(cs))

\* for file_path, file_chunks in chunks.items(): ...
RECURSIVE PrFileSections(_)
PrFileSections(d) ==
    IF d = <<>> THEN <<>>
    ELSE <<[line |-> "file", file |-> d[1].key]>>
         \o PrFileChunksLines(d[1].val)
         \o PrFileSections(Tail(d))

(***************************************************************************)
(* Inputs of pr_chunker.py.                                                *)
(***************************************************************************)
DiffDefF ==
    <<HunkHeader(7, 0, 8, 2, TRUE, <<>>),
      TextLine(<<"+", "def ", "f", "(", "x):">>),
      TextLine(<<"+", "    return x">>)>>

DiffClassSvc ==
    <<HunkHeader(0, 0, 1, 6, TRUE, <<>>),
      TextLine(<<"+", "class ", "Svc", "(", "Base):">>),
      TextLine(<<"+", "    ", "def ", "m", "(", "self):">>),
      HunkHeader(7, 0, 8, 0, FALSE, <<"def ", "f", "(", "x):">>),
      TextLine(<<"+", "    return x + 1">>)>>

\* Svc is declared without bases (`class Svc:`) and added whole
DiffPlainClass ==
    <<HunkHeader(0, 0, 1, 6, TRUE, <<>>),
      TextLine(<<"+", "class ", "Svc", ":">>),
      TextLine(<<"+", "    ", "def ", "m", "(", "self):">>)>>

DiffDefG ==
    <<HunkHeader(0, 0, 1, 2, TRUE, <<>>),
      TextLine(<<"+", "def ", "g", "(", "):">>),
      TextLine(<<"+", "    return 1">>)>>

\* the body of g (line 2) changes, its def line does not
DiffBodyG ==
    <<HunkHeader(2, 0, 2, 0, FALSE, <<>>),
      TextLine(<<"-", "    return 0">>),
      TextLine(<<"+", "    return 1">>)>>

\* the diffs a file with the given definitions can have
PrDiffsOf(tree) ==
    IF tree = TreeClassAndFunction
    THEN {DiffDefF, DiffClassSvc, DiffPlainClass, DiffNoHunk}
    ELSE {DiffDefG, DiffBodyG, DiffNoHunk}

PrFileChoices(path) ==
    IF path = TxtPath
    THEN {[path |-> path, content |-> NoContent("missing"), diff |-> DiffRaises]}
    ELSE UNION {
            {[path |-> path, content |-> [kind |-> "module", body |-> t],
              diff |-> DiffReturns(d)] : d \in PrDiffsOf(t)} :
            t \in Trees}

PrFileLists ==
    {fs \in UNION {[1..n -> UNION {PrFileChoices(p) : p \in ChangedPaths}] :
                      n \in 0..MaxFiles} :
        \A i, j \in 1..Len(fs) : i # j => fs[i].path # fs[j].path}

ArgChoices ==
    {[min_lines |-> 200, max_lines |-> 800],
     [min_lines |-> 5, max_lines |-> 10],
     [min_lines |-> 10, max_lines |-> 5]}

(***************************************************************************)
(* Specification SpecPrReview: pr_chunker.py entered through main, or      *)
(* through process_chunks by a caller that passes each parsed file's       *)
(* collected chunks and diff and hands the results to generate_output.     *)
(***************************************************************************)
InitPrReview ==
    /\ entry \in {"main", "process_chunks"}
    /\ pc = IF entry = "main" THEN "pr_analyze" ELSE "pr_process"
    /\ err = "none"
    /\ changed_files \in PrFileLists
    /\ (entry = "process_chunks" =>
           \A i \in 1..Len(changed_files) : EndsWithPy(changed_files[i].path))
    /\ idx = 1
    /\ chunks = <<>>
    /\ reviewers = <<>>
    /\ reviewer_chunks = <<>>
    /\ report = <<>>
    /\ args \in ArgChoices
    /\ result = NoResult

\* one iteration of the loop of analyze_changes
PrAnalyzeFileStep ==
    /\ pc = "pr_analyze"
    /\ idx <= Len(changed_files)
    /\ chunks' = PrAnalyzeFile(chunks, changed_files[idx])
    /\ idx' = idx + 1
    /\ UNCHANGED <<entry, pc, err, changed_files, reviewers, reviewer_chunks, report, args, result>>

\* return chunks
PrAnalyzeReturn ==
    /\ pc = "pr_analyze"
    /\ idx > Len(changed_files)
    /\ pc' = "pr_output"
    /\ UNCHANGED <<entry, err, changed_files, idx, chunks, reviewers, reviewer_chunks, report, args, result>>

\* chunks[file_path] = process_chunks(collector.chunks, file_diff), by the caller
PrProcessChunks ==
    /\ pc = "pr_process"
    /\ idx <= Len(changed_files)
    /\ chunks' = DictSet(chunks, changed_files[idx].path,
                         process_chunks(VisitNodes(changed_files[idx].content.body),
                                        changed_files[idx].diff.lines))
    /\ idx' = idx + 1
    /\ UNCHANGED <<entry, pc, err, changed_files, reviewers, reviewer_chunks, report, args, result>>

PrProcessDone ==
    /\ pc = "pr_process"
    /\ idx > Len(changed_files)
    /\ pc' = "pr_output"
    /\ UNCHANGED <<entry, err, changed_files, idx, chunks, reviewers, reviewer_chunks, report, args, result>>

\* generate_output(chunks, ..., min_lines, max_lines)
PrGenerateOutput ==
    /\ pc = "pr_output"
    /\ report' = PrReportHeader(args) \o PrFileSections(chunks)
    /\ pc' = "pr_returned"
    /\ UNCHANGED <<entry, err, changed_files, idx, chunks, reviewers, reviewer_chunks, args, result>>

NextPrReview ==
    \/ PrAnalyzeFileStep \/ PrAnalyzeReturn
    \/ PrProcessChunks \/ PrProcessDone
    \/ PrGenerateOutput

SpecPrReview == InitPrReview /\ [][NextPrReview]_vars

(***************************************************************************)
(* Specification SpecExtract: one call of extract_context (pr_chunker.py)  *)
(* for a definition and a diff of up to ContextLimit + MaxOver lines after *)
(* the line that opens the definition.                                     *)
(***************************************************************************)
MaxLead == 2
MaxOver == 2

\* a line of the diff that opens no definition; n tells the lines apart
FillerLine(n) == TextLine(<<"+", ToString(n)>>)

\* lines that mention `def f(` or `class f(`
OpeningLines ==
    {TextLine(<<"+", "def ", "f", "(", "x):">>),
     TextLine(<<"+", "class ", "f", "(", "Base):">>),
     TextLine(<<" ", "    ", "def ", "f", "(", "self):">>),
     HunkHeader(7, 0, 8, 2, TRUE, <<"def ", "f", "(", "x):">>)}

\* lead filler lines, the opening line, then tail more lines, all filler
\* except the third, which repeats the opening line
DiffAround(lead, opening, tail) ==
    [i \in 1..(lead + 1 + tail) |->
        IF i = lead + 1 \/ i = lead + 4 THEN opening ELSE FillerLine(i)]

ExtractDiffs ==
    {[i \in 1..n |-> FillerLine(i)] : n \in 0..MaxLead}
    \cup
    {DiffAround(lead, opening, tail) :
        lead \in 0..MaxLead, opening \in OpeningLines,
        tail \in 0..(ContextLimit + MaxOver)}

ExtractDefinitions ==
    {<<Node(t, n, 8, 9, <<>>)>> : t \in {"function", "class"}, n \in {"f", "g"}}

InitExtract ==
    /\ entry = "extract_context"
    /\ pc = "extract_call"
    /\ err = "none"
    /\ changed_files \in
          {<<[path |-> PyPaths[1], content |-> [kind |-> "module", body |-> b],
              diff |-> DiffReturns(d)]>> : b \in ExtractDefinitions, d \in ExtractDiffs}
    /\ idx = 1
    /\ chunks = <<>>
    /\ reviewers = <<>>
    /\ reviewer_chunks = <<>>
    /\ report = <<>>
    /\ args = NoArgs
    /\ result = NoResult

\* chunk_diff = extract_context(diff, type_, name, start, end)
ExtractCall ==
    /\ pc = "extract_call"
    /\ LET def == changed_files[1].content.body[1]
       IN  result' = extract_context(changed_files[1].diff.lines,
                                     def.type, def.name, def.start, def.end)
    /\ pc' = "extract_done"
    /\ UNCHANGED <<entry, err, changed_files, idx, chunks, reviewers, reviewer_chunks, report, args>>

NextExtract == ExtractCall

SpecExtract == InitExtract /\ [][NextExtract]_vars

(***************************************************************************)
(* scripts/pr_chunker.py: identify_changed_components and                  *)
(* extract_definition_diff.  A line is the sequence of its characters, so  *)
(* startswith, `in` and strip are the string operations the code applies.  *)
(* Specification SpecDefDiff: one call of identify_changed_components,     *)
(* definition by definition.                                               *)
(***************************************************************************)
MaxDiffLines == 3

\* the characters of a definition's name
Chars(name) ==
    CASE name = "Svc" -> <<"S", "v", "c">>
      [] OTHER -> <<name>>

LineDefF == <<"+", "d", "e", "f", " ", "f", "(", ")", ":">>
LineDefG == <<"+", "d", "e", "f", " ", "g", "(", ")", ":">>
LineClassSvc == <<"+", "c", "l", "a", "s", "s", " ", "S", "v", "c", ":">>
LineBody == <<"+", " ", "x">>
LineEmpty == <<>>
LineSpace == <<" ">>
LineDiffGit == <<"d", "i", "f", "f", " ", "-", "-", "g", "i", "t", " ", "a">>

DefDiffLines ==
    {LineDefF, LineDefG, LineClassSvc, LineBody, LineEmpty, LineSpace, LineDiffGit}

\* full_diff.split('\n'): at least one line, the last one empty when the
\* text ends with a newline
SplitDiffs ==
    UNION {[1..n -> DefDiffLines] : n \in 1..MaxDiffLines}

\* line.startswith(prefix)
StartsWith(line, prefix) ==
    Len(line) >= Len(prefix) /\ SubSeq(line, 1, Len(prefix)) = prefix

\* line.strip() == ''
StripsToEmpty(line) == \A i \in 1..Len(line) : line[i] \in {" ", "\t"}

\* '\n'.join(chunk_lines)
RECURSIVE JoinLines(_)
JoinLines(lines) ==
    IF lines = <<>> THEN <<>>
    ELSE IF Len(lines) = 1 THEN lines[1]
    ELSE lines[1] \o <<"\n">> \o JoinLines(Tail(lines))

\* def_type == 'function' and line.startswith('+def ') and def_name in line, or
\* def_type == 'class' and line.startswith('+class ') and def_name in line
StartsDefinition(line, def_type, def_name) ==
    \/ /\ def_type = "function"
       /\ StartsWith(line, <<"+", "d", "e", "f", " ">>)
       /\ Contains(line, Chars(def_name))
    \/ /\ def_type = "class"
       /\ StartsWith(line, <<"+", "c", "l", "a", "s", "s", " ">>)
       /\ Contains(line, Chars(def_name))

\* if line.strip() == '' or line.startswith('diff --git'): break
EndsChunkOnBlankOnly(line) == StripsToEmpty(line)
EndsChunk(line) ==
    StripsToEmpty(line) \/ StartsWith(line, <<"d", "i", "f", "f", " ", "-", "-", "g", "i", "t">>)

\* the for loop of extract_definition_diff from line i on: chunk_lines
RECURSIVE DefDiffLoop(_, _, _, _, _, _)
DefDiffLoop(lines, def_type, def_name, i, in_chunk, chunk_lines) ==
    IF i > Len(lines) THEN chunk_lines
    ELSE IF ~in_chunk
         THEN DefDiffLoop(lines, def_type, def_name, i + 1,
                          StartsDefinition(lines[i], def_type, def_name), chunk_lines)
         ELSE LET collected == Append(chunk_lines, lines[i])
              IN  IF EndsChunk(lines[i]) THEN collected
                  ELSE DefDiffLoop(lines, def_type, def_name, i + 1, TRUE, collected)

\* return '\n'.join(chunk_lines) if chunk_lines else None
extract_definition_diff(lines, def_type, def_name) ==
    LET chunk_lines == DefDiffLoop(lines, def_type, def_name, 1, FALSE, <<>>)
    IN  IF chunk_lines # <<>>
        THEN [none |-> FALSE, text |-> JoinLines(chunk_lines)]
        ELSE [none |-> TRUE, text |-> <<>>]

\* if chunk_diff: None and the empty string are both false
Truthy(chunk_diff) == ~chunk_diff.none /\ chunk_diff.text # <<>>

\* DefinitionCollector: collector.definitions after new_tree.visit(collector)
RECURSIVE CollectDefinitions(_)
CollectDefinitions(nodes) ==
    IF nodes = <<>> THEN <<>>
    ELSE LET node == nodes[1]
             descend == IF node.type = "function" THEN visit_FunctionDef(node)
                        ELSE visit_ClassDef(node)
         IN  <<[type |-> node.type, name |-> node.name]>>
             \o (IF descend THEN CollectDefinitions(node.body) ELSE <<>>)
             \o CollectDefinitions(Tail(nodes))

InitDefDiff ==
    /\ entry = "identify_changed_components"
    /\ pc = "identify"
    /\ err = "none"
    /\ changed_files \in
          {<<[path |-> PyPaths[1], content |-> [kind |-> "module", body |-> t],
              diff |-> DiffReturns(d)]>> : t \in Trees, d \in SplitDiffs}
    /\ idx = 1
    /\ chunks = <<>>
    /\ reviewers = <<>>
    /\ reviewer_chunks = <<>>
    /\ report = <<>>
    /\ args = NoArgs
    /\ result = NoResult

\* one iteration of `for def_type, def_name in collector.definitions`
IdentifyDefinition ==
    /\ pc = "identify"
    /\ LET definitions == CollectDefinitions(changed_files[1].content.body)
       IN  /\ idx <= Len(definitions)
           /\ LET def == definitions[idx]
                  chunk_diff == extract_definition_diff(changed_files[1].diff.lines,
                                                        def.type, def.name)
              IN  /\ result' = chunk_diff
                  /\ chunks' = IF Truthy(chunk_diff)
                               THEN Append(chunks, [name |-> def.name, type |-> def.type,
                                                    diff |-> chunk_diff.text])
                               ELSE chunks
    /\ idx' = idx + 1
    /\ UNCHANGED <<entry, pc, err, changed_files, reviewers, reviewer_chunks, report, args>>

\* return chunks
IdentifyReturn ==
    /\ pc = "identify"
    /\ idx > Len(CollectDefinitions(changed_files[1].content.body))
    /\ pc' = "identify_done"
    /\ UNCHANGED <<entry, err, changed_files, idx, chunks, reviewers, reviewer_chunks, report, args, result>>

NextDefDiff == IdentifyDefinition \/ IdentifyReturn

SpecDefDiff == InitDefDiff /\ [][NextDefDiff]_vars

(***************************************************************************)
(* .github/scripts/pr_chunker.py: analyze_pr_changes,                      *)
(* identify_changed_components and extract_function_diff.  A file has the  *)
(* diff, the base version (old) and the feature version (content) that git *)
(* gives for it.  Specification SpecGithub: one call of                    *)
(* analyze_pr_changes, file by file.                                       *)
(***************************************************************************)
\* function g, an import statement, function f
TreeTwoFunctions ==
    <<Node("function", "g", 1, 2, <<>>), Node("statement", "import", 3, 3, <<>>),
      Node("function", "f", 5, 6, <<>>)>>

\* function f (lines 1-2), then class Svc (lines 4-6) with method m
TreeFunctionThenClass ==
    <<Node("function", "f", 1, 2, <<>>),
      Node("class", "Svc", 4, 6, <<Node("function", "m", 5, 6, <<>>)>>)>>

GhTrees == Trees \cup {<<>>, TreeTwoFunctions, TreeFunctionThenClass}

\* diff_content.split('\n') for: an empty diff; f added, a blank line inside;
\* g added after a body line
GhDiffs ==
    {<<LineEmpty>>,
     <<LineDefF, LineBody, LineEmpty, LineBody>>,
     <<LineBody, LineDefG, LineBody>>}

Module(body) == [kind |-> "module", body |-> body]

GhFileChoices(path) ==
    IF path = TxtPath
    THEN {[path |-> path, diff |-> DiffRaises, old |-> NoContent("missing"),
           content |-> NoContent("missing")]}
    ELSE {[path |-> path, diff |-> DiffReturns(d), old |-> Module(<<>>),
           content |-> Module(t)] : t \in GhTrees, d \in GhDiffs}
         \cup
         {[path |-> path, diff |-> DiffRaises, old |-> Module(<<>>),
           content |-> Module(TreeOneFunction)]}
         \cup
         {[path |-> path, diff |-> DiffReturns(<<LineDefF, LineBody>>),
           old |-> NoContent("missing"), content |-> Module(t)] :
              t \in {TreeTwoFunctions, TreeFunctionThenClass}}
         \cup
         {[path |-> path, diff |-> DiffReturns(<<LineBody>>), old |-> o, content |-> c] :
              o \in {Module(<<>>), NoContent("unparseable")},
              c \in {NoContent("missing"), NoContent("unparseable")}}
         \cup
         {[path |-> path, diff |-> DiffReturns(<<LineBody>>),
           old |-> NoContent("unparseable"), content |-> Module(TreeOneFunction)]}

GhFileLists ==
    {fs \in UNION {[1..n -> UNION {GhFileChoices(p) : p \in ChangedPaths}] :
                      n \in 0..MaxFiles} :
        \A i, j \in 1..Len(fs) : i # j => fs[i].path # fs[j].path}

\* the module defines extract_function_diff and no extract_class_diff
NameDefinedAlways(name) == TRUE
NameDefined(name) == name # "extract_class_diff"

\* the for loop of extract_function_diff from line i on: function_diff
RECURSIVE FunctionDiffLoop(_, _, _, _, _)
FunctionDiffLoop(lines, function_name, i, in_function, function_diff) ==
    IF i > Len(lines) THEN function_diff
    ELSE LET inside == in_function
                       \/ Contains(lines[i], <<"d", "e", "f", " ">>
                                             \o Chars(function_name) \o <<"(">>)
         IN  IF ~inside
             THEN FunctionDiffLoop(lines, function_name, i + 1, FALSE, function_diff)
             ELSE IF StripsToEmpty(lines[i])
                  THEN Append(function_diff, lines[i])
                  ELSE FunctionDiffLoop(lines, function_name, i + 1, TRUE,
                                        Append(function_diff, lines[i]))

\* return '\n'.join(function_diff)
extract_function_diff(lines, function_name) ==
    JoinLines(FunctionDiffLoop(lines, function_name, 1, FALSE, <<>>))

\* for node in new_tree.body: the chunks collected, or the NameError raised
\* by the call of a name that is not defined
RECURSIVE IdentifyLoop(_, _, _, _)
IdentifyLoop(body, lines, i, cs) ==
    IF i > Len(body) THEN [raised |-> "none", chunks |-> cs]
    ELSE LET node == body[i]
         IN  IF node.type = "function"
             THEN IF NameDefined("extract_function_diff")
                  THEN IdentifyLoop(body, lines, i + 1,
                           Append(cs, [name |-> node.name, type |-> "function",
                                       diff |-> extract_function_diff(lines, node.name)]))
                  ELSE [raised |-> "NameError", chunks |-> cs]
             ELSE IF node.type = "class"
             THEN IF NameDefined("extract_class_diff")
                  THEN IdentifyLoop(body, lines, i + 1,
                           Append(cs, [name |-> node.name, type |-> "class",
                                       diff |-> <<>>]))
                  ELSE [raised |-> "NameError", chunks |-> cs]
             ELSE IdentifyLoop(body, lines, i + 1, cs)

identify_changed_components(new_tree, lines) == IdentifyLoop(new_tree.body, lines, 1, <<>>)

\* what the loop body of analyze_pr_changes does with one file: the
\* exception its try block raises, or "ok"
GhFileOutcome(file) ==
    IF ~EndsWithPy(file.path) THEN "skip_non_python"
    ELSE IF ~file.diff.ok THEN "GitCommandError"
    ELSE IF file.old.kind = "missing" THEN "GitCommandError"
    ELSE IF file.content.kind = "missing" THEN "GitCommandError"
    ELSE IF file.old.kind = "unparseable" THEN "ParserSyntaxError"
    ELSE IF file.content.kind = "unparseable" THEN "ParserSyntaxError"
    ELSE IF identify_changed_components(file.content, file.diff.lines).raised # "none"
    THEN identify_changed_components(file.content, file.diff.lines).raised
    ELSE "ok"

InitGithub ==
    /\ entry = "analyze_pr_changes"
    /\ pc = "gh_call"
    /\ err = "none"
    /\ changed_files \in GhFileLists
    /\ idx = 1
    /\ chunks = <<>>
    /\ reviewers = <<>>
    /\ reviewer_chunks = <<>>
    /\ report = <<>>
    /\ args = NoArgs
    /\ result = NoResult

\* diffs = repo.git.diff(..., name_only=True).split('\n'); chunks = {}
GhListFiles ==
    /\ pc = "gh_call"
    /\ pc' = "gh_loop"
    /\ idx' = 1
    /\ chunks' = <<>>
    /\ UNCHANGED <<entry, err, changed_files, reviewers, reviewer_chunks, report, args, result>>

\* one iteration of `for file_path in diffs`; err is the exception the
\* except clause printed for this file
GhFileStep ==
    /\ pc = "gh_loop"
    /\ idx <= Len(changed_files)
    /\ LET file == changed_files[idx]
           outcome == GhFileOutcome(file)
       IN  /\ chunks' = IF outcome = "ok"
                        THEN DictSet(chunks, file.path,
                                 identify_changed_components(file.content,
                                                             file.diff.lines).chunks)
                        ELSE chunks
           /\ err' = IF outcome \in {"ok", "skip_non_python"} THEN "none" ELSE outcome
    /\ idx' = idx + 1
    /\ UNCHANGED <<entry, pc, changed_files, reviewers, reviewer_chunks, report, args, result>>

\* return chunks
GhReturn ==
    /\ pc = "gh_loop"
    /\ idx > Len(changed_files)
    /\ pc' = "gh_done"
    /\ UNCHANGED <<entry, err, changed_files, idx, chunks, reviewers, reviewer_chunks, report, args, result>>

NextGithub == GhListFiles \/ GhFileStep \/ GhReturn

SpecGithub == InitGithub /\ [][NextGithub]_vars

(***************************************************************************)
(* Claims about divide_chunks_among_reviewers, under SpecDist.             *)
(***************************************************************************)
RECURSIVE SumLens(_)
SumLens(d) == IF d = <<>> THEN 0 ELSE Len(d[1].val) + SumLens(Tail(d))

\* how many times item occurs over all the reviewers' sequences
RECURSIVE Occurrences(_, _)
Occurrences(d, item) ==
    IF d = <<>> THEN 0
    ELSE Cardinality({p \in 1..Len(d[1].val) : d[1].val[p] = item})
         + Occurrences(Tail(d), item)

\* the items of list whose 0-based index i has rs[i mod R] = r, in index order
RECURSIVE ItemsOfReviewer(_, _, _, _)
ItemsOfReviewer(list, rs, r, i) ==
    IF i >= Len(list) THEN <<>>
    ELSE IF rs[(i % Len(rs)) + 1] = r
         THEN <<list[i + 1]>> \o ItemsOfReviewer(list, rs, r, i + 1)
         ELSE ItemsOfReviewer(list, rs, r, i + 1)

CeilDiv(n, r) == (n + r - 1) \div r

\* C1: with R >= 1 reviewers the call returns, every input (file, chunk) pair
\* occurs exactly once over all the reviewers' sequences, nothing else occurs,
\* and the lengths of the sequences sum to N.
C1_Conservation ==
    /\ (Len(reviewers) >= 1 => pc # "divide_raised")
    /\ (pc = "divide_done" /\ Len(reviewers) >= 1) =>
        LET list == ChunkList(chunks) IN
        /\ SumLens(reviewer_chunks) = Len(list)
        /\ \A i \in 1..Len(list) : Occurrences(reviewer_chunks, list[i]) = 1
        /\ \A e \in 1..Len(reviewer_chunks) :
              \A p \in 1..Len(reviewer_chunks[e].val) :
                 \E i \in 1..Len(list) : list[i] = reviewer_chunks[e].val[p]

C1_Witness ==
    /\ pc = "divide_done"
    /\ Len(reviewers) >= 2
    /\ Len(ChunkList(chunks)) >= 3
    /\ Len(chunks) >= 2
    /\ \E e \in 1..Len(reviewer_chunks) : Len(reviewer_chunks[e].val) >= 2

\* C2: the chunk at flattened index i is held by the reviewer at position
\* i mod R of the reviewer list, and each reviewer's sequence lists exactly
\* its chunks in increasing index order.
C2_RoundRobinOrder ==
    (pc = "divide_done" /\ Len(reviewers) >= 1) =>
        LET list == ChunkList(chunks) IN
        /\ DictKeys(reviewer_chunks) = {reviewers[i] : i \in 1..Len(reviewers)}
        /\ \A e \in 1..Len(reviewer_chunks) :
              reviewer_chunks[e].val =
                 ItemsOfReviewer(list, reviewers, reviewer_chunks[e].key, 0)

C2_Witness ==
    /\ pc = "divide_done"
    /\ Len(reviewers) = 2
    /\ reviewers[1] # reviewers[2]
    /\ Len(chunks) = 2
    /\ Len(ChunkList(chunks)) = 4
    /\ DictGet(reviewer_chunks, reviewers[1]) =
          <<ChunkList(chunks)[1], ChunkList(chunks)[3]>>
    /\ DictGet(reviewer_chunks, reviewers[2]) =
          <<ChunkList(chunks)[2], ChunkList(chunks)[4]>>

\* C3: for every N and every reviewer list of length R >= 1, each reviewer of
\* the returned assignment holds floor(N/R) or ceil(N/R) chunks.
C3_Balance ==
    (pc = "divide_done" /\ Len(reviewers) >= 1) =>
        LET n == Len(ChunkList(chunks))
            r == Len(reviewers) IN
        \A e \in 1..Len(reviewer_chunks) :
            Len(reviewer_chunks[e].val) \in {n \div r, CeilDiv(n, r)}

\* C4: a call with an empty reviewer list never returns an assignment,
\* whatever the chunk list (the empty one included): it fails.
C4_ZeroReviewersRejected ==
    Len(reviewers) = 0 => pc # "divide_done"

(***************************************************************************)
(* Claims about analyze_changes, under SpecAnalyze.                        *)
(***************************************************************************)
\* The changed-line set of a diff: the union, over its hunk headers, of
\* newStart .. newStart + newCount - 1, newCount being 1 when omitted.
HunkLines(lines) ==
    UNION {
        LET cnt == IF lines[i].countGiven THEN lines[i].newCount ELSE 1
        IN  lines[i].newStart .. (lines[i].newStart + cnt - 1) :
        i \in {j \in 1..Len(lines) : lines[j].hunk} }

Intersects(span, changed) == \E l \in span[1]..span[2] : l \in changed

FileAt(path) ==
    changed_files[CHOOSE i \in 1..Len(changed_files) : changed_files[i].path = path]

\* C5: the chunks reported for a file are exactly its discovered spans whose
\* line range holds a changed line of the file's diff, in their original order.
C5_SpanDiffIntersection ==
    pc = "analyze_done" =>
        \A e \in 1..Len(chunks) :
            LET file == FileAt(chunks[e].key)
                changed == HunkLines(file.diff.lines)
                touched(c) == Intersects(c.lines, changed)
            IN  chunks[e].val = SelectSeq(VisitNodes(file.content.body), touched)

\* C6: when a changed line lies inside a method of a class, the file's chunks
\* hold both the class chunk and the method chunk.
C6_NestedSpansBothReported ==
    pc = "analyze_done" =>
        \A e \in 1..Len(chunks) :
            LET file == FileAt(chunks[e].key)
                body == file.content.body
                changed == HunkLines(file.diff.lines)
                reported == {chunks[e].val[p] : p \in 1..Len(chunks[e].val)}
            IN  \A c \in 1..Len(body) : \A k \in 1..Len(body[c].body) :
                    (/\ body[c].type = "class"
                     /\ Intersects(<<body[c].body[k].start, body[c].body[k].end>>, changed))
                    => /\ _add_chunk(body[c]) \in reported
                       /\ _add_chunk(body[c].body[k]) \in reported

\* A file fails when its content is unparseable or missing (git show fails or
\* returns nothing), or when extracting raises (its diff cannot be fetched).
Failing(file) ==
    \/ file.content.kind \in {"missing", "empty", "unparseable"}
    \/ ~file.diff.ok

NonFailingPy(file) == EndsWithPy(file.path) /\ ~Failing(file)

\* C9: whatever files fail, the loop reaches the end of the list, and the
\* result holds exactly the entries of the non-failing .py files, in list
\* order, each with the chunks of that file alone: the result of analysing
\* the list with the failing files removed.
C9_FailureIsolation ==
    /\ (pc = "analyze_loop" => idx <= Len(changed_files) + 1)
    /\ pc = "analyze_done" =>
        LET good == SelectSeq(changed_files, NonFailingPy) IN
        /\ idx = Len(changed_files) + 1
        /\ chunks = [i \in 1..Len(good) |->
                        [key |-> good[i].path,
                         val |-> VisitNodes(good[i].content.body)]]
        /\ chunks = AnalyzeFrom(good, 1, <<>>)

C9_Witness ==
    /\ pc = "analyze_done"
    /\ Len(changed_files) = 2
    /\ FileOutcome(changed_files[1]) \in {"ParserSyntaxError", "GitCommandError"}
    /\ NonFailingPy(changed_files[2])
    /\ DictKeys(chunks) = {changed_files[2].path}

(***************************************************************************)
(* Claims about a run of chunker.py, under SpecRun.                        *)
(***************************************************************************)
RunEnded == pc \in {"returned", "raised", "exited"}

\* C10: a run that fails on an empty reviewer list has failed with nothing
\* written to the report: generate_output never writes the report header and
\* then fails on the reviewer list.
C10_ConfigFailsFast ==
    (RunEnded /\ Len(reviewers) = 0 /\ err \in {"SystemExit(2)", "ZeroDivisionError"}) =>
        report = <<>>

(***************************************************************************)
(* Claims about pr_chunker.py, under SpecPrReview.                         *)
(***************************************************************************)
LineCount(c) == c.lines[2] - c.lines[1] + 1

WithinBounds(c) == args.min_lines <= LineCount(c) /\ LineCount(c) <= args.max_lines

\* the line ranges of the chunks the report shows, in report order
ReportedRanges(rep) ==
    LET isRange(l) == l.line = "chunk_lines"
        ranges == SelectSeq(rep, isRange)
    IN  [i \in 1..Len(ranges) |-> ranges[i].lines]

RECURSIVE AllChunks(_)
AllChunks(d) == IF d = <<>> THEN <<>> ELSE d[1].val \o AllChunks(Tail(d))

\* C7: the output keeps a chunk if and only if its line count
\* endLine - startLine + 1 lies in [minLines, maxLines], in unchanged order.
C7_ChunkFilter ==
    (pc = "pr_returned" /\ args.min_lines <= args.max_lines) =>
        LET kept == SelectSeq(AllChunks(chunks), WithinBounds)
        IN  ReportedRanges(report) = [i \in 1..Len(kept) |-> kept[i].lines]

\* C8: the changed lines of a file are those of its diff's hunk headers
\* (newStart .. newStart + newCount - 1, newCount 1 when omitted): a diff with
\* no well-formed hunk header changes no line, so none of the file's
\* definitions is a chunk, and a definition that holds a line of a hunk is one.
C8_HunkHeaderLines ==
    (entry = "process_chunks" /\ pc = "pr_output") =>
        \A e \in 1..Len(chunks) :
            LET file == FileAt(chunks[e].key)
                changed == HunkLines(file.diff.lines)
                spans == VisitNodes(file.content.body)
                reported == {chunks[e].val[p].lines : p \in 1..Len(chunks[e].val)}
            IN  /\ changed = {} => chunks[e].val = <<>>
                /\ \A k \in 1..Len(spans) :
                      Intersects(spans[k].lines, changed) => spans[k].lines \in reported

(***************************************************************************)
(* The capacity-bucketed policy, under SpecDist.                           *)
(***************************************************************************)
Min(a, b) == IF a <= b THEN a ELSE b

\* C11: with N chunks and R >= 1 reviewers the reviewer at position k holds
\* the contiguous chunks of indices k*ceil(N/R) .. min(N, (k+1)*ceil(N/R)) - 1.
C11_CapacityBucketed ==
    (/\ pc = "divide_done"
     /\ Len(reviewers) >= 1
     /\ \A i, j \in 1..Len(reviewers) : i # j => reviewers[i] # reviewers[j]) =>
        LET list == ChunkList(chunks)
            n == Len(list)
            size == CeilDiv(n, Len(reviewers))
        IN  \A k \in 0..(Len(reviewers) - 1) :
                DictGet(reviewer_chunks, reviewers[k + 1]) =
                    SubSeq(list, Min(n, k * size) + 1, Min(n, (k + 1) * size))

(***************************************************************************)
(* Claims about extract_context, under SpecExtract.                        *)
(***************************************************************************)
\* the positions of the diff lines that contain `def <name>(` for a function
\* or `class <name>(` for a class
MatchingLines(diff, def) ==
    {i \in 1..Len(diff) :
        \/ def.type = "function" /\ Contains(diff[i].toks, <<"def ", def.name, "(">>)
        \/ def.type = "class" /\ Contains(diff[i].toks, <<"class ", def.name, "(">>)}

FirstOf(S) == CHOOSE i \in S : \A j \in S : i <= j

\* C12: extract_context returns None if and only if no diff line matches;
\* otherwise the excerpt is the header `@@ -<start>,0 +<end>,0 @@` followed by
\* the consecutive diff lines from the first matching line on, at most
\* ContextLimit of them, so never more than ContextLimit + 1 lines.
C12_ExtractContext ==
    pc = "extract_done" =>
        LET diff == changed_files[1].diff.lines
            def == changed_files[1].content.body[1]
            matches == MatchingLines(diff, def)
        IN  /\ result.found <=> matches # {}
            /\ ~result.found => result = NoResult
            /\ result.found =>
                  LET m == FirstOf(matches) IN
                  /\ Len(result.lines) <= ContextLimit + 1
                  /\ result.lines[1] =
                        [hunk |-> TRUE, oldStart |-> def.start, oldCount |-> 0,
                         newStart |-> def.end, newCount |-> 0,
                         countGiven |-> TRUE, toks |-> <<>>]
                  /\ result.lines[2] = diff[m]
                  /\ Tail(result.lines) =
                        SubSeq(diff, m, Min(Len(diff), m + ContextLimit - 1))

\* the excerpt was cut: more than ContextLimit lines follow the first match
C12_Witness ==
    /\ pc = "extract_done"
    /\ result.found
    /\ Len(result.lines) = ContextLimit + 1
    /\ LET diff == changed_files[1].diff.lines
           m == FirstOf(MatchingLines(diff, changed_files[1].content.body[1]))
       IN  m > 1 /\ Len(diff) - m + 1 > ContextLimit

(***************************************************************************)
(* Claims about extract_definition_diff and identify_changed_components,   *)
(* under SpecDefDiff.                                                      *)
(***************************************************************************)
\* the positions of the lines that start with `+def ` / `+class ` (by the
\* definition's type) and contain its name
OpeningPositions(diff, def) ==
    {i \in 1..Len(diff) :
        /\ StartsWith(diff[i], IF def.type = "function"
                               THEN <<"+", "d", "e", "f", " ">>
                               ELSE <<"+", "c", "l", "a", "s", "s", " ">>)
        /\ Contains(diff[i], Chars(def.name))}

\* the positions after `from` of the blank lines and `diff --git` lines
ClosingPositions(diff, from) ==
    {i \in (from + 1)..Len(diff) :
        \/ \A c \in 1..Len(diff[i]) : diff[i][c] \in {" ", "\t"}
        \/ StartsWith(diff[i], <<"d", "i", "f", "f", " ", "-", "-", "g", "i", "t">>)}

\* the lines after the first opening line, up to and including the first
\* closing line, or up to the end of the diff
ExcerptLines(diff, def) ==
    LET m == FirstOf(OpeningPositions(diff, def))
        closing == ClosingPositions(diff, m)
    IN  SubSeq(diff, m + 1, IF closing = {} THEN Len(diff) ELSE FirstOf(closing))

\* the result of the definition processed last is None exactly when no line
\* opens it or the opening line is the last line; otherwise it is the joined
\* excerpt, which leaves the opening line out
ResultIsExcerpt ==
    (pc = "identify" /\ idx > 1) =>
        LET diff == changed_files[1].diff.lines
            def == CollectDefinitions(changed_files[1].content.body)[idx - 1]
            opening == OpeningPositions(diff, def)
        IN  /\ result.none <=> (opening = {} \/ FirstOf(opening) = Len(diff))
            /\ ~result.none => result.text = JoinLines(ExcerptLines(diff, def))

\* the definitions processed so far whose result satisfies Reported
ProcessedWhere(Reported(_)) ==
    LET diff == changed_files[1].diff.lines
        definitions == CollectDefinitions(changed_files[1].content.body)
    IN  {j \in 1..(idx - 1) :
            LET opening == OpeningPositions(diff, definitions[j])
            IN  /\ opening # {}
                /\ FirstOf(opening) # Len(diff)
                /\ Reported(JoinLines(ExcerptLines(diff, definitions[j])))}

\* chunks holds, in order, exactly the definitions of S with their excerpts
ChunksAre(S) ==
    LET diff == changed_files[1].diff.lines
        definitions == CollectDefinitions(changed_files[1].content.body)
    IN  /\ Len(chunks) = Cardinality(S)
        /\ \A j \in S :
              chunks[Cardinality({i \in S : i <= j})] =
                  [name |-> definitions[j].name, type |-> definitions[j].type,
                   diff |-> JoinLines(ExcerptLines(diff, definitions[j]))]

AnyText(text) == TRUE
NonEmptyText(text) == text # <<>>

\* C13 (as stated): the first line starting with `+def ` / `+class ` that
\* contains the name opens the excerpt and is excluded, the following lines
\* are collected up to and including the first blank or `diff --git` line, the
\* result is None exactly when no opening line exists or it is the last line,
\* and a definition is reported as a chunk if and only if its result is not
\* None.
C13_ReportedIffNotNone ==
    /\ ResultIsExcerpt
    /\ pc \in {"identify", "identify_done"} => ChunksAre(ProcessedWhere(AnyText))

\* C13 (amended): the same extraction, and a definition is reported as a chunk
\* if and only if its result is neither None nor the empty string.
C13_ReportedIffNonEmpty ==
    /\ ResultIsExcerpt
    /\ pc \in {"identify", "identify_done"} => ChunksAre(ProcessedWhere(NonEmptyText))

\* a definition whose excerpt is the empty string was left out while another
\* one was reported
C13_Witness ==
    /\ pc = "identify_done"
    /\ ProcessedWhere(AnyText) # ProcessedWhere(NonEmptyText)
    /\ chunks # <<>>

(***************************************************************************)
(* Claims about .github/scripts/pr_chunker.py, under SpecGithub.           *)
(***************************************************************************)
\* the diff and both versions of the file were fetched and parsed
Fetched(file) ==
    file.diff.ok /\ file.old.kind = "module" /\ file.content.kind = "module"

HasTopLevelClass(file) ==
    \E i \in 1..Len(file.content.body) : file.content.body[i].type = "class"

IsFunctionNode(node) == node.type = "function"

\* the diff lines from the first one containing `def <name>(` up to and
\* including the first blank line at or after it
FunctionExcerpt(diff, name) ==
    LET pat == <<"d", "e", "f", " ">> \o Chars(name) \o <<"(">>
        matches == {i \in 1..Len(diff) : Contains(diff[i], pat)}
    IN  IF matches = {} THEN <<>>
        ELSE LET m == FirstOf(matches)
                 blanks == {i \in m..Len(diff) :
                               \A c \in 1..Len(diff[i]) : diff[i][c] \in {" ", "\t"}}
             IN  SubSeq(diff, m, IF blanks = {} THEN Len(diff) ELSE FirstOf(blanks))

\* the file's entry holds one chunk per top-level function, in source order
OneChunkPerFunction(file) ==
    /\ DictHas(chunks, file.path)
    /\ LET functions == SelectSeq(file.content.body, IsFunctionNode)
           recorded == DictGet(chunks, file.path)
       IN  /\ Len(recorded) = Len(functions)
           /\ \A k \in 1..Len(functions) :
                 recorded[k] =
                     [name |-> functions[k].name, type |-> "function",
                      diff |-> JoinLines(FunctionExcerpt(file.diff.lines,
                                                         functions[k].name))]

\* an entry is recorded exactly for the .py files on which
\* identify_changed_components was called and did not raise, and a file whose
\* new version has a top-level class has no entry
EntryIffIdentifyCompletes ==
    \A i \in 1..Len(changed_files) :
        LET file == changed_files[i]
        IN  /\ DictHas(chunks, file.path) <=>
                  (EndsWithPy(file.path) /\ Fetched(file) /\ ~HasTopLevelClass(file))
            /\ (file.content.kind = "module" /\ HasTopLevelClass(file)) =>
                  ~DictHas(chunks, file.path)

\* C14 (as stated): an entry is recorded if and only if
\* identify_changed_components completes without raising; a file whose new
\* version has a top-level class is absent from the result; every .py file
\* whose new version has only top-level functions gets one chunk per function
\* in source order, empty diffs included.
C14_FunctionOnlyFilesReported ==
    pc = "gh_done" =>
        /\ EntryIffIdentifyCompletes
        /\ \A i \in 1..Len(changed_files) :
              LET file == changed_files[i]
              IN  (/\ EndsWithPy(file.path)
                   /\ file.content.kind = "module"
                   /\ ~HasTopLevelClass(file)) => OneChunkPerFunction(file)

\* C14 (amended): the same, with one chunk per function for the .py files
\* with only top-level functions whose diff and two versions git returned and
\* the parser accepted; the others are absent from the result.
C14_FetchedFunctionOnlyFilesReported ==
    pc = "gh_done" =>
        /\ EntryIffIdentifyCompletes
        /\ \A i \in 1..Len(changed_files) :
              LET file == changed_files[i]
              IN  (/\ EndsWithPy(file.path)
                   /\ Fetched(file)
                   /\ ~HasTopLevelClass(file)) => OneChunkPerFunction(file)

\* one file lost its function to the NameError of its class, another one has
\* two chunks, one of them with an empty diff
C14_Witness ==
    /\ pc = "gh_done"
    /\ \E i \in 1..Len(changed_files) :
          /\ Fetched(changed_files[i])
          /\ \E k \in 1..Len(changed_files[i].content.body) :
                changed_files[i].content.body[k].type = "function"
          /\ HasTopLevelClass(changed_files[i])
          /\ ~DictHas(chunks, changed_files[i].path)
    /\ \E i \in 1..Len(chunks) :
          /\ Len(chunks[i].val) = 2
          /\ chunks[i].val[1].diff = <<>>
          /\ chunks[i].val[2].diff # <<>>

====
